---- MODULE Spec2Model ----
(***************************************************************************)
(* entsoe-py: one logical query of the typed client (EntsoePandasClient)   *)
(* against the transparency platform, as a state machine.                  *)
(*                                                                         *)
(* Transport is EntsoeRawClient._base_request (src/entsoe/entsoe.py 66-129)*)
(* and the request builders of the raw client.  The wrappers year_limited, *)
(* paginated, documents_limited and retry live in entsoe/decorators.py,    *)
(* which is not among the sources; they are modelled from the design       *)
(* document (sections 4.1, 4.3 and 4.4).                                   *)
(*                                                                         *)
(* Time is counted in ticks.  An instant is an absolute (UTC) tick count;  *)
(* TicksPerHour ticks make an hour and YearLen ticks make a calendar year. *)
(***************************************************************************)
EXTENDS Integers, Sequences, FiniteSets, TLC

VARIABLES
    kind,        \* the report kind of the logical query
    call,        \* the client called and the caller's area and process arguments
    steps,       \* history: what the call did before it reached Transport
    start,       \* caller's window start (instant)
    end,         \* caller's window end (instant)
    pc,          \* orchestrator state
    blocks,      \* the sub-windows of the logical query, in order
    bi,          \* index of the sub-window being processed
    offset,      \* offset chosen for the next / current PageRequest
    attempts,    \* physical attempts made for the PageRequest in flight
    answer,      \* the provider's answer to the last physical attempt
    outcome,     \* what _base_request made of that answer
    limited,     \* resolvable limit answers the provider gave so far
    limits,      \* history: the limit answers given in the current sub-window
    requests,    \* history: every PageRequest issued, in order
    done,        \* history: every finished sub-window and what it yielded
    frames,      \* ParsedFragments accumulated so far
    result       \* terminal outcome of the logical query

vars == <<kind, call, steps, start, end, pc, blocks, bi, offset, attempts, answer, outcome,
          limited, limits, requests, done, frames, result>>

-----------------------------------------------------------------------------
(* Bounds of the model *)

\* length of the model's calendar year, in hours
HoursPerYear == 1
\* calendar years the caller's window may reach into
NumYears == 3
\* document-count limit answers the provider gives to one logical query
MaxLimited == 2
\* calendar years the window of a composite report may reach into
CompositeYears == 2

\* resolution of an instant below the hour: '%Y%m%d%H00' keeps whole hours
TicksPerHour == 2

YearLen == TicksPerHour * HoursPerYear
Horizon == NumYears * YearLen

None == "None"

Min(a, b) == IF a < b THEN a ELSE b
Max(a, b) == IF a > b THEN a ELSE b

-----------------------------------------------------------------------------
(* Report kinds of the typed client and their wrapper stacks *)

YearOnlyKinds == {"net_position", "day_ahead_prices", "load"}
PagedKinds == {"offered_capacity", "contracted_reserve_prices",
               "contracted_reserve_amount", "unavailability"}
\* typed methods that do not cut their table to [start, end]
WideKinds == {"installed_generation_capacity",
              "aggregate_water_reservoirs_and_hydro_storage"}
Kinds == YearOnlyKinds \cup PagedKinds \cup WideKinds
            \cup {"unavailability_transmission"}

\* faulty variant: query_net_position has lost its @year_limited
year_limited_missing(k) == k \notin {"unavailability_transmission", "net_position"}

\* @year_limited on the typed method
year_limited(k) == k # "unavailability_transmission"

\* faulty variant: _query_unavailability is wrapped with documents_limited(100)
documents_limited_100(k) ==
    IF k \in {"offered_capacity", "contracted_reserve_prices",
              "contracted_reserve_amount", "unavailability"} THEN 100 ELSE 0

\* @documents_limited(n) on the typed method: the page ceiling n, and 0 for
\* a method that carries no such wrapper
documents_limited(k) ==
    CASE k \in {"offered_capacity", "contracted_reserve_prices",
                "contracted_reserve_amount"} -> 100
      [] k = "unavailability" -> 200
      [] OTHER -> 0

-----------------------------------------------------------------------------
(* The provider's answers *)

\* the phrases _base_request looks for
NoData == "No matching data found"
Dependency == "check you request against dependency tables"
PsrInvalid == "is not valid for this area"
CountLimit == "amount of requested data exceeds allowed limit"
OffsetLimit == "requested data to be gathered via the offset parameter exceeds the allowed limit"

\* a token of a text split at blanks is a sequence of characters
W == <<"w">>
T50 == <<"5", "0">>
T100 == <<"1", "0", "0">>
T150 == <<"1", "5", "0">>
T200 == <<"2", "0", "0">>
T250 == <<"2", "5", "0">>
T300 == <<"3", "0", "0">>

\* a <text> element: the phrases its text contains and its text split at ' '
Text(phrases, tokens) == [contains |-> phrases, tokens |-> tokens]

\* the document-count message: the allowed count is the 5th token from the
\* end, the requested count the 2nd from the end
CountText(requested, allowed) ==
    Text({CountLimit}, <<W, W, allowed, W, W, requested, W>>)

\* the offset message: the allowed count, followed by two more characters, is
\* the 30th token from the end, the requested count the 9th from the end
OffsetText(requested, allowed) ==
    Text({OffsetLimit},
         [i \in 1..31 |-> CASE i = 2 -> allowed \o <<")", ".">>
                            [] i = 23 -> requested
                            [] OTHER -> W])

\* the words of a phrase as tokens, the letters of a word not told apart
Words(ws) == [i \in 1..Len(ws) |-> <<ws[i]>>]

\* a text that is the offset phrase and nothing more: 13 tokens
OffsetPhraseOnly ==
    Text({OffsetLimit},
         Words(<<"requested", "data", "to", "be", "gathered", "via", "the", "offset",
                 "parameter", "exceeds", "the", "allowed", "limit">>))

Answer(raises, status, ctype, texts, plain) ==
    [raises |-> raises, status |-> status, ctype |-> ctype,
     texts |-> texts, plain |-> plain]

Xml == "application/xml"
Zip == "application/zip"

\* what the provider (or the network) may answer to one physical request
AnswerIds == {"ok_xml", "ok_xml_nodata", "ok_zip", "ok_zip_nodata",
              "err_nodata", "err_dependency", "err_psr",
              "err_count_250_100", "err_count_150_100", "err_count_300_200",
              "err_count_150_50", "err_offset", "err_unknown", "err_notext",
              "err_5xx", "conn_error",
              "err_offset_short", "err_nodata_dependency", "err_dependency_psr",
              "err_psr_count", "err_count_offset", "err_text_then_nodata"}

Resp(id) ==
    CASE id = "ok_xml"        -> Answer(FALSE, 200, Xml, <<>>, {})
      [] id = "ok_xml_nodata" -> Answer(FALSE, 200, Xml, <<Text({NoData}, <<W>>)>>, {})
      [] id = "ok_zip"        -> Answer(FALSE, 200, Zip, <<>>, {})
      [] id = "ok_zip_nodata" -> Answer(FALSE, 200, Zip, <<>>, {NoData})
      [] id = "err_nodata"    -> Answer(FALSE, 400, Xml, <<Text({NoData}, <<W>>)>>, {})
      [] id = "err_dependency" -> Answer(FALSE, 400, Xml, <<Text({Dependency}, <<W>>)>>, {})
      [] id = "err_psr"       -> Answer(FALSE, 400, Xml, <<Text({PsrInvalid}, <<W>>)>>, {})
      [] id = "err_count_250_100" ->
            Answer(FALSE, 400, Xml, <<CountText(T250, T100)>>, {})
      [] id = "err_count_150_100" ->
            Answer(FALSE, 400, Xml, <<CountText(T150, T100)>>, {})
      [] id = "err_count_300_200" ->
            Answer(FALSE, 400, Xml, <<CountText(T300, T200)>>, {})
      [] id = "err_count_150_50" ->
            Answer(FALSE, 400, Xml, <<CountText(T150, T50)>>, {})
      [] id = "err_offset"    ->
            Answer(FALSE, 400, Xml, <<OffsetText(T250, T100)>>, {})
      [] id = "err_unknown"   -> Answer(FALSE, 400, Xml, <<Text({}, <<W, W>>)>>, {})
      [] id = "err_notext"    -> Answer(FALSE, 401, "text/html", <<>>, {})
      [] id = "err_5xx"       -> Answer(FALSE, 503, "text/html", <<>>, {})
      [] id = "conn_error"    -> Answer(TRUE, 0, "", <<>>, {})
      [] id = "err_offset_short" -> Answer(FALSE, 400, Xml, <<OffsetPhraseOnly>>, {})
      [] id = "err_nodata_dependency" ->
            Answer(FALSE, 400, Xml, <<Text({NoData, Dependency}, <<W>>)>>, {})
      [] id = "err_dependency_psr" ->
            Answer(FALSE, 400, Xml, <<Text({Dependency, PsrInvalid}, <<W>>)>>, {})
      [] id = "err_psr_count" ->
            Answer(FALSE, 400, Xml,
                   <<Text({PsrInvalid, CountLimit}, CountText(T250, T100).tokens)>>, {})
      [] id = "err_count_offset" ->
            Answer(FALSE, 400, Xml,
                   <<Text({CountLimit, OffsetLimit}, OffsetText(T250, T100).tokens)>>, {})
      [] id = "err_text_then_nodata" ->
            Answer(FALSE, 400, Xml, <<Text({}, <<W, W>>), Text({NoData}, <<W>>)>>, {})

-----------------------------------------------------------------------------
(* Transport: EntsoeRawClient._base_request *)

\* '%Y%m%d%H00' of the instant in UTC: the hour the instant lies in
datetime_to_str(dtm) == dtm \div TicksPerHour

\* dict.update
Update(params, more) ==
    [k \in DOMAIN params \cup DOMAIN more |->
        IF k \in DOMAIN more THEN more[k] ELSE params[k]]

api_key == "token"

\* __init__: retry_count: int = 1
retry_count == 1

\* faulty variant: the request is sent with the three parameters of Transport
\* in place of the builder's
base_params_replaced(params, s, e) ==
    [securityToken |-> api_key,
     periodStart |-> datetime_to_str(s),
     periodEnd |-> datetime_to_str(e)]

\* params.update(base_params): the parameter set of the builder, with the
\* three parameters of Transport put into it, is what _base_request sends
base_params(params, s, e) ==
    Update(params, [securityToken |-> api_key,
                    periodStart |-> datetime_to_str(s),
                    periodEnd |-> datetime_to_str(e)])

\* what one call of the undecorated _base_request ends in: the response, or
\* the exception it raises
Outcome(exc, status, requested, allowed, shape) ==
    [exc |-> exc, status |-> status, requested |-> requested,
     allowed |-> allowed, shape |-> shape]

Returned(r) == Outcome("Response", r.status, <<>>, <<>>, "")
Raised(exc, r) == Outcome(exc, r.status, <<>>, <<>>, "")

\* seq[-k] of Python: defined when the sequence has at least k elements
HasIndexFromEnd(seq, k) == Len(seq) >= k
FromEnd(seq, k) == seq[Len(seq) - k + 1]

\* token[:-2] of Python
DropLastTwo(token) == SubSeq(token, 1, Len(token) - 2)

\* faulty variant: the two counts of the document-count message are read from each
\* other's position
error_status_swapped(r) ==
    IF Len(r.texts) > 0
    THEN LET error_text == r.texts[1] IN
         CASE NoData \in error_text.contains -> Raised("NoMatchingDataError", r)
           [] Dependency \in error_text.contains ->
                Raised("InvalidBusinessParameterError", r)
           [] PsrInvalid \in error_text.contains -> Raised("InvalidPSRTypeError", r)
           [] CountLimit \in error_text.contains ->
                IF HasIndexFromEnd(error_text.tokens, 5)
                THEN Outcome("PaginationError", r.status,
                             FromEnd(error_text.tokens, 5),
                             FromEnd(error_text.tokens, 2), "count")
                ELSE Raised("IndexError", r)
           [] OTHER -> Raised("HTTPError", r)
    ELSE Raised("HTTPError", r)

\* faulty variant: the offset message is not looked for
error_status_count_only(r) ==
    IF Len(r.texts) > 0
    THEN LET error_text == r.texts[1] IN
         CASE NoData \in error_text.contains -> Raised("NoMatchingDataError", r)
           [] Dependency \in error_text.contains ->
                Raised("InvalidBusinessParameterError", r)
           [] PsrInvalid \in error_text.contains -> Raised("InvalidPSRTypeError", r)
           [] CountLimit \in error_text.contains ->
                IF HasIndexFromEnd(error_text.tokens, 5)
                THEN Outcome("PaginationError", r.status,
                             FromEnd(error_text.tokens, 2),
                             FromEnd(error_text.tokens, 5), "count")
                ELSE Raised("IndexError", r)
           [] OTHER -> Raised("HTTPError", r)
    ELSE Raised("HTTPError", r)

\* faulty variant: a text with none of the phrases counts as no data
error_status_default_empty(r) ==
    IF Len(r.texts) > 0
    THEN LET error_text == r.texts[1] IN
         CASE Dependency \in error_text.contains ->
                Raised("InvalidBusinessParameterError", r)
           [] PsrInvalid \in error_text.contains -> Raised("InvalidPSRTypeError", r)
           [] CountLimit \in error_text.contains ->
                IF HasIndexFromEnd(error_text.tokens, 5)
                THEN Outcome("PaginationError", r.status,
                             FromEnd(error_text.tokens, 2),
                             FromEnd(error_text.tokens, 5), "count")
                ELSE Raised("IndexError", r)
           [] OffsetLimit \in error_text.contains ->
                IF HasIndexFromEnd(error_text.tokens, 30)
                THEN Outcome("PaginationError", r.status,
                             FromEnd(error_text.tokens, 9),
                             DropLastTwo(FromEnd(error_text.tokens, 30)), "offset")
                ELSE Raised("IndexError", r)
           [] OTHER -> Raised("NoMatchingDataError", r)
    ELSE Raised("HTTPError", r)

\* faulty variant: the allowed count of the offset message keeps its last
\* two characters
error_status_offset_unstripped(r) ==
    IF Len(r.texts) > 0
    THEN LET error_text == r.texts[1] IN
         CASE NoData \in error_text.contains -> Raised("NoMatchingDataError", r)
           [] Dependency \in error_text.contains ->
                Raised("InvalidBusinessParameterError", r)
           [] PsrInvalid \in error_text.contains -> Raised("InvalidPSRTypeError", r)
           [] CountLimit \in error_text.contains ->
                IF HasIndexFromEnd(error_text.tokens, 5)
                THEN Outcome("PaginationError", r.status,
                             FromEnd(error_text.tokens, 2),
                             FromEnd(error_text.tokens, 5), "count")
                ELSE Raised("IndexError", r)
           [] OffsetLimit \in error_text.contains ->
                IF HasIndexFromEnd(error_text.tokens, 30)
                THEN Outcome("PaginationError", r.status,
                             FromEnd(error_text.tokens, 9),
                             FromEnd(error_text.tokens, 30), "offset")
                ELSE Raised("IndexError", r)
           [] OTHER -> Raised("HTTPError", r)
    ELSE Raised("HTTPError", r)

\* faulty variant: the document-count phrase is looked for before the others
error_status_limit_first(r) ==
    IF Len(r.texts) > 0
    THEN LET error_text == r.texts[1] IN
         IF CountLimit \in error_text.contains
         THEN IF HasIndexFromEnd(error_text.tokens, 5)
              THEN Outcome("PaginationError", r.status,
                           FromEnd(error_text.tokens, 2),
                           FromEnd(error_text.tokens, 5), "count")
              ELSE Raised("IndexError", r)
         ELSE IF NoData \in error_text.contains
         THEN Raised("NoMatchingDataError", r)
         ELSE IF Dependency \in error_text.contains
         THEN Raised("InvalidBusinessParameterError", r)
         ELSE IF PsrInvalid \in error_text.contains
         THEN Raised("InvalidPSRTypeError", r)
         ELSE IF OffsetLimit \in error_text.contains
         THEN IF HasIndexFromEnd(error_text.tokens, 30)
              THEN Outcome("PaginationError", r.status,
                           FromEnd(error_text.tokens, 9),
                           DropLastTwo(FromEnd(error_text.tokens, 30)), "offset")
              ELSE Raised("IndexError", r)
         ELSE Raised("HTTPError", r)
    ELSE Raised("HTTPError", r)

\* the except branch: response.raise_for_status() raised HTTPError.  The
\* text looked at is that of the first <text> element; the phrases are looked
\* for in the order of the if/elif chain; an index past the tokens of the text
\* raises IndexError
error_status(r) ==
    IF Len(r.texts) > 0
    THEN LET error_text == r.texts[1] IN
         IF NoData \in error_text.contains
         THEN Raised("NoMatchingDataError", r)
         ELSE IF Dependency \in error_text.contains
         THEN Raised("InvalidBusinessParameterError", r)
         ELSE IF PsrInvalid \in error_text.contains
         THEN Raised("InvalidPSRTypeError", r)
         ELSE IF CountLimit \in error_text.contains
         THEN IF HasIndexFromEnd(error_text.tokens, 5)
              THEN Outcome("PaginationError", r.status,
                           FromEnd(error_text.tokens, 2),
                           FromEnd(error_text.tokens, 5), "count")
              ELSE Raised("IndexError", r)
         ELSE IF OffsetLimit \in error_text.contains
         THEN IF HasIndexFromEnd(error_text.tokens, 30)
              THEN Outcome("PaginationError", r.status,
                           FromEnd(error_text.tokens, 9),
                           DropLastTwo(FromEnd(error_text.tokens, 30)), "offset")
              ELSE Raised("IndexError", r)
         ELSE Raised("HTTPError", r)
    ELSE Raised("HTTPError", r)

\* 'No matching data found' in response.text
NoDataInBody(r) ==
    \/ NoData \in r.plain
    \/ \E i \in 1..Len(r.texts) : NoData \in r.texts[i].contains

\* faulty variant: the body of a 200 response is scanned whatever its content type
ok_status_scan_all(r) ==
    IF NoDataInBody(r) THEN Raised("NoMatchingDataError", r) ELSE Returned(r)

\* faulty variant: a 200 response is returned without a look at its body
ok_status_unscanned(r) == Returned(r)

\* the else branch: status 200
ok_status(r) ==
    IF r.ctype = Xml /\ NoDataInBody(r)
    THEN Raised("NoMatchingDataError", r)
    ELSE Returned(r)

\* faulty variant: a failed connection is raised as an HTTPError
base_request_connection_as_http(r) ==
    IF r.raises THEN Raised("HTTPError", r)
    ELSE IF r.status >= 400 THEN error_status(r)
    ELSE ok_status(r)

\* faulty variant: raise_for_status is never called
base_request_unchecked(r) ==
    IF r.raises THEN Raised("ConnectionError", r) ELSE ok_status(r)

base_request(r) ==
    IF r.raises THEN Raised("ConnectionError", r)
    ELSE IF r.status >= 400 THEN error_status(r)
    ELSE ok_status(r)

\* @retry: which outcomes of one attempt are sent again
IsTransient(o) ==
    \/ o.exc = "ConnectionError"
    \/ o.exc = "HTTPError" /\ o.status >= 500

-----------------------------------------------------------------------------
(* The arguments of a call and what a method does with them before Transport *)

\* the further reports built by _query_crossborder, one name for every value
\* of the option (dayahead, implicit) that decides a parameter
CrossborderKinds ==
    {"crossborder_flows",
     "scheduled_exchanges", "scheduled_exchanges dayahead",
     "net_transfer_capacity_dayahead", "net_transfer_capacity_weekahead",
     "net_transfer_capacity_monthahead", "net_transfer_capacity_yearahead",
     "intraday_offered_capacity", "intraday_offered_capacity explicit",
     "offered_capacity explicit"}

\* reports whose methods take a pair of areas
PairedKinds == {"offered_capacity", "unavailability_transmission"} \cup CrossborderKinds
CallKinds == Kinds \cup {"procured_balancing_capacity"} \cup CrossborderKinds

\* the Area Resolver: the code of the area an identifier names, None for an
\* identifier that matches no registry entry
lookup_area(s) ==
    CASE s = "BE" -> "10YBE"
      [] s = "NL" -> "10YNL"
      [] s = "FR" -> "10YFR"
      [] s = "GB" -> "10YGB"
      [] OTHER -> None

Call(client, cc, cc_to, process_type) ==
    [client |-> client, country_code |-> cc, country_code_to |-> cc_to,
     process_type |-> process_type]

\* a call of the typed client whose arguments pass every check
ValidCall(k) ==
    Call("typed", "BE",
         IF k \in PairedKinds THEN "NL" ELSE None,
         IF k = "procured_balancing_capacity" THEN "A51" ELSE None)

\* the calls of the method of kind k, on either client
Calls(k) ==
    {Call(cl, cc, cc_to, pt) :
        cl \in {"raw", "typed"},
        cc \in {"BE", "XX"},
        cc_to \in (IF k \in PairedKinds THEN {"NL", "XX"} ELSE {None}),
        pt \in (IF k = "procured_balancing_capacity"
                THEN {"A51", "A47", "A99"} ELSE {None})}

\* the statements of the typed method before it calls the raw method: the
\* areas are looked up, the one of country_code_to first
typed_steps(k) ==
    IF k \in PairedKinds
    THEN <<"lookup_area(country_code_to)", "lookup_area(country_code_from)">>
    ELSE <<"lookup_area(country_code)">>

\* faulty variant: _query_crossborder looks up area_out only
raw_steps_one_area(k) ==
    CASE k = "procured_balancing_capacity" ->
            <<"process_type in ['A51', 'A47']", "lookup_area(country_code)">>
      [] k \in PairedKinds -> <<"lookup_area(country_code_from)">>
      [] OTHER -> <<"lookup_area(country_code)">>

\* the statements of the raw method before it calls _base_request
raw_steps(k) ==
    CASE k = "procured_balancing_capacity" ->
            <<"process_type in ['A51', 'A47']", "lookup_area(country_code)">>
      [] k \in PairedKinds ->
            <<"lookup_area(country_code_to)", "lookup_area(country_code_from)">>
      [] OTHER -> <<"lookup_area(country_code)">>

\* the exception a statement raises for the arguments c, None if it passes
step_error(step, c) ==
    CASE step = "process_type in ['A51', 'A47']" ->
            IF c.process_type \in {"A51", "A47"} THEN None ELSE "ValueError"
      [] step = "lookup_area(country_code_to)" ->
            IF lookup_area(c.country_code_to) # None THEN None ELSE "UnknownAreaError"
      [] OTHER ->
            IF lookup_area(c.country_code) # None THEN None ELSE "UnknownAreaError"

\* the statements a call of kind k runs through, in order
call_steps(k, c) ==
    IF c.client = "typed" THEN typed_steps(k) \o raw_steps(k) ELSE raw_steps(k)

\* how many of them are executed: all, or up to the first that raises
executed(k, c) ==
    LET all == call_steps(k, c)
        bad == {i \in 1..Len(all) : step_error(all[i], c) # None}
    IN  IF bad = {} THEN Len(all)
        ELSE CHOOSE i \in bad : \A j \in bad : i <= j

call_error(k, c) ==
    LET all == call_steps(k, c) IN step_error(all[executed(k, c)], c)

-----------------------------------------------------------------------------
(* Request builders of the raw client *)

\* the caller's arguments other than the window: the areas of the call, as
\* the codes lookup_area gives for them
country_code == lookup_area(call.country_code)
country_code_from == lookup_area(call.country_code)
country_code_to == lookup_area(call.country_code_to)
marketagreement_type == "A01"

\* faulty variant: the two areas are taken for each other
query_crossborder_swapped(doctype, contract_marketagreement_type, auction_type, business_type) ==
    LET p0 == [documentType |-> doctype,
               in_Domain |-> country_code_from,
               out_Domain |-> country_code_to]
        p1 == IF contract_marketagreement_type # None
              THEN Update(p0, "contract_MarketAgreement.Type" :> contract_marketagreement_type)
              ELSE p0
        p2 == IF auction_type # None
              THEN Update(p1, "Auction.Type" :> auction_type)
              ELSE p1
    IN  IF business_type # None
        THEN Update(p2, [businessType |-> business_type])
        ELSE p2

query_crossborder(doctype, contract_marketagreement_type, auction_type, business_type) ==
    LET p0 == [documentType |-> doctype,
               in_Domain |-> country_code_to,
               out_Domain |-> country_code_from]
        p1 == IF contract_marketagreement_type # None
              THEN Update(p0, "contract_MarketAgreement.Type" :> contract_marketagreement_type)
              ELSE p0
        p2 == IF auction_type # None
              THEN Update(p1, "Auction.Type" :> auction_type)
              ELSE p1
    IN  IF business_type # None
        THEN Update(p2, [businessType |-> business_type])
        ELSE p2

\* query_offered_capacity(..., implicit, **kwargs): an offset passed by the
\* caller lands in kwargs and goes no further
query_offered_capacity(implicit, off) ==
    query_crossborder(IF implicit THEN "A31" ELSE "A25",
                      marketagreement_type,
                      IF implicit THEN "A01" ELSE "A02",
                      IF implicit THEN None ELSE "B05")

query_crossborder_flows == query_crossborder("A11", None, None, None)

query_scheduled_exchanges(dayahead) ==
    query_crossborder("A09", IF dayahead THEN "A01" ELSE "A05", None, None)

\* query_net_transfer_capacity_dayahead, _weekahead, _monthahead, _yearahead
query_net_transfer_capacity(contract_marketagreement_type) ==
    query_crossborder("A61", contract_marketagreement_type, None, None)

query_intraday_offered_capacity(implicit) ==
    query_crossborder("A31", "A07", IF implicit THEN "A01" ELSE "A02", None)

query_contracted_reserve(doctype, off) ==
    ("documentType" :> doctype) @@ ("controlArea_Domain" :> country_code)
      @@ ("type_MarketAgreement.Type" :> marketagreement_type)
      @@ ("offset" :> off)

query_unavailability(doctype, off) ==
    [documentType |-> doctype, biddingZone_domain |-> country_code, offset |-> off]

query_unavailability_transmission(off) ==
    [documentType |-> "A78", in_Domain |-> country_code_to,
     out_Domain |-> country_code_from, offset |-> off]

\* query_procured_balancing_capacity of the raw client, past its checks
query_procured_balancing_capacity(process_type) ==
    [documentType |-> "A15", area_Domain |-> country_code,
     processType |-> process_type]

\* the parameter set the raw method of kind k builds when the typed method
\* calls it with offset off
raw_query(k, off) ==
    CASE k = "net_position" ->
            ("documentType" :> "A25") @@ ("businessType" :> "B09")
              @@ ("Contract_MarketAgreement.Type" :> "A01")
              @@ ("in_Domain" :> country_code) @@ ("out_Domain" :> country_code)
      [] k = "day_ahead_prices" ->
            [documentType |-> "A44", in_Domain |-> country_code,
             out_Domain |-> country_code]
      [] k = "load" ->
            [documentType |-> "A65", processType |-> "A16",
             outBiddingZone_Domain |-> country_code, out_Domain |-> country_code]
      [] k = "load_forecast" ->
            [documentType |-> "A65", processType |-> "A01",
             outBiddingZone_Domain |-> country_code]
      [] k = "installed_generation_capacity" ->
            [documentType |-> "A68", processType |-> "A33", in_Domain |-> country_code]
      [] k = "aggregate_water_reservoirs_and_hydro_storage" ->
            [documentType |-> "A72", processType |-> "A16", in_Domain |-> country_code]
      [] k = "procured_balancing_capacity" ->
            query_procured_balancing_capacity(call.process_type)
      [] k = "offered_capacity" -> query_offered_capacity(TRUE, off)
      [] k = "offered_capacity explicit" -> query_offered_capacity(FALSE, off)
      [] k = "crossborder_flows" -> query_crossborder_flows
      [] k = "scheduled_exchanges" -> query_scheduled_exchanges(FALSE)
      [] k = "scheduled_exchanges dayahead" -> query_scheduled_exchanges(TRUE)
      [] k = "net_transfer_capacity_dayahead" -> query_net_transfer_capacity("A01")
      [] k = "net_transfer_capacity_weekahead" -> query_net_transfer_capacity("A02")
      [] k = "net_transfer_capacity_monthahead" -> query_net_transfer_capacity("A03")
      [] k = "net_transfer_capacity_yearahead" -> query_net_transfer_capacity("A04")
      [] k = "intraday_offered_capacity" -> query_intraday_offered_capacity(TRUE)
      [] k = "intraday_offered_capacity explicit" ->
            query_intraday_offered_capacity(FALSE)
      [] k = "contracted_reserve_prices" -> query_contracted_reserve("A89", off)
      [] k = "contracted_reserve_amount" -> query_contracted_reserve("A81", off)
      [] k = "unavailability" -> query_unavailability("A80", off)
      [] k = "unavailability_transmission" -> query_unavailability_transmission(off)

\* kinds whose raw method returns response.content (a ZIP archive)
ZipKinds == {"unavailability", "unavailability_transmission"}

-----------------------------------------------------------------------------
(* Response Parser and the typed method's cut to its window *)

\* rows of the table: an instant for a time series, <<start, end>> of the
\* outage for an unavailability report.  The provider answers the hours
\* periodStart..periodEnd generously: one tick more on either side.
parse(k, periodStart, periodEnd) ==
    LET lo == Max(0, periodStart * TicksPerHour - 1)
        hi == periodEnd * TicksPerHour + TicksPerHour
    IN  IF k \in ZipKinds
        THEN {<<lo, lo>>, <<lo, hi>>, <<hi, hi + 1>>}
        ELSE lo..hi

\* faulty variant: the typed method returns what the parser gave it
truncate_none(rows, s, e) == rows

\* series.truncate(before=start, after=end)
truncate(rows, s, e) == {t \in rows : s <= t /\ t <= e}

\* df[(df['start'] < end) | (df['end'] > start)]
overlap_filter(rows, s, e) == {r \in rows : r[1] < e \/ r[2] > s}

\* start - YearBegin(): the year begin before s, the one of the year before
\* when s is a year begin itself
MinusYearBegin(s) ==
    IF s % YearLen = 0 THEN s - YearLen ELSE (s \div YearLen) * YearLen

\* end + YearEnd(): the year end after e (the last instant of the year here),
\* the one of the year after when e is a year end itself
PlusYearEnd(e) ==
    IF e % YearLen = YearLen - 1 THEN e + YearLen
    ELSE (e \div YearLen) * YearLen + YearLen - 1

\* the body of the typed method, after the raw call returned
typed_result(k, params, s, e) ==
    LET rows == parse(k, params.periodStart, params.periodEnd)
    IN  CASE k \in ZipKinds -> overlap_filter(rows, s, e)
          [] k = "installed_generation_capacity" ->
                truncate(rows, MinusYearBegin(s), PlusYearEnd(e))
          [] k = "aggregate_water_reservoirs_and_hydro_storage" -> rows
          [] OTHER -> truncate(rows, s, e)

-----------------------------------------------------------------------------
(* Pagination Orchestrator *)

\* faulty variant: every sub-window runs to the end of its calendar year
RECURSIVE YearBlocksOverrun(_, _)
YearBlocksOverrun(s, e) ==
    LET year_end == (s \div YearLen + 1) * YearLen
    IN  IF e <= year_end THEN << <<s, year_end>> >>
        ELSE << <<s, year_end>> >> \o YearBlocksOverrun(year_end, e)

\* year splitting: from s to the end of s's calendar year or e if sooner,
\* then full calendar years, the last sub-window ending at e
RECURSIVE YearBlocks(_, _)
YearBlocks(s, e) ==
    LET year_end == (s \div YearLen + 1) * YearLen
    IN  IF e <= year_end THEN << <<s, e>> >>
        ELSE << <<s, year_end>> >> \o YearBlocks(year_end, e)

SubWindows(k, s, e) == IF year_limited(k) THEN YearBlocks(s, e) ELSE << <<s, e>> >>

\* the decimal number a token spells, -1 if it spells none
Digit(c) ==
    CASE c = "0" -> 0 [] c = "1" -> 1 [] c = "2" -> 2 [] c = "3" -> 3
      [] c = "4" -> 4 [] c = "5" -> 5 [] c = "6" -> 6 [] c = "7" -> 7
      [] c = "8" -> 8 [] c = "9" -> 9 [] OTHER -> -1

RECURSIVE ToInt(_)
ToInt(token) ==
    IF Len(token) = 0 THEN -1
    ELSE LET d == Digit(token[Len(token)]) IN
         IF d < 0 THEN -1
         ELSE IF Len(token) = 1 THEN d
         ELSE LET hi == ToInt(SubSeq(token, 1, Len(token) - 1)) IN
              IF hi < 0 THEN -1 ELSE 10 * hi + d

\* a limit answer the orchestrator resolves by fetching another page
Resolvable(k, o) ==
    /\ o.exc = "PaginationError"
    /\ o.shape = "count"
    /\ documents_limited(k) > 0
    /\ ToInt(o.allowed) = documents_limited(k)

\* the concatenation of the fragments, one row per key; the cut to the window
\* is made by the typed method, on each fragment
merge(k, fs, s, e) == UNION {fs[i].rows : i \in 1..Len(fs)}

-----------------------------------------------------------------------------
(* The state machine of one logical query *)

NoResult == [error |-> None, table |-> {}]
NoOutcome == Outcome(None, 0, <<>>, <<>>, "")

\* the answers given to the pages of a logical query, one or more of every
\* outcome kind.  The provider answers a report with the content kind of its
\* endpoint; the acknowledgement of an empty result and the error documents
\* are XML
Answers(k) ==
    (IF k \in ZipKinds THEN {"ok_zip", "ok_zip_nodata"} ELSE {"ok_xml"})
    \cup {"ok_xml_nodata", "err_nodata", "err_count_250_100", "err_count_150_100",
          "err_count_300_200", "err_psr", "err_notext", "err_5xx", "conn_error"}

\* the provider's own no-data signal: the acknowledgement document with
\* status 200, or the error document whose text says so
SignalsNoData(a) ==
    LET r == Resp(a) IN
    /\ ~r.raises
    /\ \/ r.status = 200 /\ r.ctype = Xml /\ NoDataInBody(r)
       \/ r.status >= 400 /\ Len(r.texts) > 0 /\ NoData \in r.texts[1].contains

Init ==
    /\ kind \in Kinds
    /\ start \in 0..(YearLen - 1)
    /\ end \in (start + 1)..Horizon
    /\ call = ValidCall(kind)
    /\ steps = <<>>
    /\ pc = "PENDING_YEARS"
    /\ blocks = <<>>
    /\ bi = 0
    /\ offset = 0
    /\ attempts = 0
    /\ answer = None
    /\ outcome = NoOutcome
    /\ limited = 0
    /\ limits = <<>>
    /\ requests = <<>>
    /\ done = <<>>
    /\ frames = <<>>
    /\ result = NoResult

\* year_wrapper: the window is split before any request is built
SplitYears ==
    /\ pc = "PENDING_YEARS"
    /\ blocks' = SubWindows(kind, start, end)
    /\ bi' = 1
    /\ offset' = 0
    /\ pc' = "PENDING_PAGES"
    /\ UNCHANGED <<kind, call, steps, start, end, attempts, answer, outcome, limited, limits,
                   requests, done, frames, result>>

Window == blocks[bi]
Current == requests[Len(requests)]

\* faulty variant: a request is built while the previous one is in flight
SendPageEarly ==
    /\ pc \in {"PENDING_PAGES", "PAGE_SENT"}
    /\ requests' = Append(requests,
            [blk |-> bi, window |-> Window, offset |-> offset,
             params |-> base_params(raw_query(kind, offset), Window[1], Window[2])])
    /\ attempts' = 1
    /\ answer' = None
    /\ outcome' = NoOutcome
    /\ pc' = "PAGE_SENT"
    /\ UNCHANGED <<kind, call, steps, start, end, blocks, bi, offset, limited, limits, done,
                   frames, result>>

\* the typed method calls the raw method for the current sub-window and
\* offset; the raw method builds the parameters and hands them to Transport
SendPage ==
    /\ pc = "PENDING_PAGES"
    /\ requests' = Append(requests,
            [blk |-> bi, window |-> Window, offset |-> offset,
             params |-> base_params(raw_query(kind, offset), Window[1], Window[2])])
    /\ attempts' = 1
    /\ answer' = None
    /\ outcome' = NoOutcome
    /\ pc' = "PAGE_SENT"
    /\ UNCHANGED <<kind, call, steps, start, end, blocks, bi, offset, limited, limits, done,
                   frames, result>>

\* Transport answers the physical attempt in flight
Answered(a) ==
    /\ pc = "PAGE_SENT"
    /\ answer' = a
    /\ outcome' = base_request(Resp(a))

\* after the last sub-window: all void, or the merged table
Finish(fs) ==
    IF fs = <<>>
    THEN /\ pc' = "FAILED"
         /\ result' = [error |-> "NoMatchingDataError", table |-> {}]
    ELSE /\ pc' = "MERGED"
         /\ result' = [error |-> None, table |-> merge(kind, fs, start, end)]

\* faulty variant: the next sub-window goes on at the offset reached
NextWindowKeepOffset(a, fs) ==
    /\ done' = Append(done, [blk |-> bi, nodata |-> SignalsNoData(a),
                             fragments |-> Len(fs) - Len(frames)])
    /\ frames' = fs
    /\ offset' = offset
    /\ attempts' = 0
    /\ limits' = IF bi < Len(blocks) THEN <<>> ELSE limits
    /\ IF bi < Len(blocks)
       THEN /\ bi' = bi + 1
            /\ pc' = "PENDING_PAGES"
            /\ result' = result
       ELSE /\ bi' = bi
            /\ Finish(fs)

\* the sub-window is done: on to the next one, at offset 0
NextWindow(a, fs) ==
    /\ done' = Append(done, [blk |-> bi, nodata |-> SignalsNoData(a),
                             fragments |-> Len(fs) - Len(frames)])
    /\ frames' = fs
    /\ offset' = 0
    /\ attempts' = 0
    /\ limits' = IF bi < Len(blocks) THEN <<>> ELSE limits
    /\ IF bi < Len(blocks)
       THEN /\ bi' = bi + 1
            /\ pc' = "PENDING_PAGES"
            /\ result' = result
       ELSE /\ bi' = bi
            /\ Finish(fs)

\* faulty variant: the attempts are not counted
RetryPageUncounted(a) ==
    /\ Answered(a)
    /\ IsTransient(outcome')
    /\ attempts <= retry_count
    /\ attempts' = attempts
    /\ UNCHANGED <<kind, call, steps, start, end, pc, blocks, bi, offset, limited, limits,
                   requests, done, frames, result>>

\* @retry: a transient failure within the retry budget is sent again
RetryPage(a) ==
    /\ Answered(a)
    /\ IsTransient(outcome')
    /\ attempts <= retry_count
    /\ attempts' = attempts + 1
    /\ UNCHANGED <<kind, call, steps, start, end, pc, blocks, bi, offset, limited, limits,
                   requests, done, frames, result>>

\* the response is returned, parsed and cut by the typed method
Accumulate(a) ==
    /\ Answered(a)
    /\ outcome'.exc = "Response"
    /\ NextWindow(a, Append(frames,
            [blk |-> bi,
             rows |-> typed_result(kind, Current.params, Window[1], Window[2])]))
    /\ UNCHANGED <<kind, call, steps, start, end, blocks, limited, requests>>

\* NoMatchingDataError: the sub-window contributes nothing
EmptyWindow(a) ==
    /\ Answered(a)
    /\ outcome'.exc = "NoMatchingDataError"
    /\ NextWindow(a, frames)
    /\ UNCHANGED <<kind, call, steps, start, end, blocks, limited, requests>>

\* a limit answer that maps to the report's ceiling: same window, next page
NextPage(a) ==
    /\ Answered(a)
    /\ Resolvable(kind, outcome')
    /\ limited < MaxLimited
    /\ limited' = limited + 1
    /\ limits' = Append(limits, a)
    /\ offset' = offset + documents_limited(kind)
    /\ attempts' = 0
    /\ pc' = "PENDING_PAGES"
    /\ UNCHANGED <<kind, call, steps, start, end, blocks, bi, requests, done, frames, result>>

\* any other outcome ends the logical query
Fail(a) ==
    /\ Answered(a)
    /\ outcome'.exc \notin {"Response", "NoMatchingDataError"}
    /\ ~Resolvable(kind, outcome')
    /\ ~(IsTransient(outcome') /\ attempts <= retry_count)
    /\ pc' = "FAILED"
    /\ result' = [error |-> outcome'.exc, table |-> {}]
    /\ UNCHANGED <<kind, call, steps, start, end, blocks, bi, offset, attempts, limited,
                   limits, requests, done, frames>>

Next ==
    \/ SplitYears
    \/ SendPage
    \/ \E a \in Answers(kind) : RetryPage(a)
    \/ \E a \in Answers(kind) : Accumulate(a)
    \/ \E a \in Answers(kind) : EmptyWindow(a)
    \/ \E a \in Answers(kind) : NextPage(a)
    \/ \E a \in Answers(kind) : Fail(a)

Spec == Init /\ [][Next]_vars

\* one report kind of every wrapper stack; every physical request is answered
\* and every step the orchestrator can take is taken
InitFair ==
    /\ Init
    /\ kind \in {"load", "unavailability", "unavailability_transmission"}

SpecFair == InitFair /\ [][Next]_vars /\ WF_vars(Next)

-----------------------------------------------------------------------------
(* Transport alone: one call of _base_request, for every answer *)

InitTransport ==
    /\ kind \in Kinds
    /\ start = 0
    /\ end = YearLen
    /\ call = ValidCall(kind)
    /\ steps = <<>>
    /\ pc = "TRANSPORT"
    /\ blocks = << <<start, end>> >>
    /\ bi = 1
    /\ offset = 0
    /\ attempts = 1
    /\ answer = None
    /\ outcome = NoOutcome
    /\ limited = 0
    /\ limits = <<>>
    /\ requests = << [blk |-> 1, window |-> <<start, end>>, offset |-> 0,
                      params |-> base_params(raw_query(kind, 0), start, end)] >>
    /\ done = <<>>
    /\ frames = <<>>
    /\ result = NoResult

BaseRequest(a) ==
    /\ pc = "TRANSPORT"
    /\ answer' = a
    /\ outcome' = base_request(Resp(a))
    /\ pc' = "TRANSPORT_DONE"
    /\ UNCHANGED <<kind, call, steps, start, end, blocks, bi, offset, attempts, limited,
                   limits, requests, done, frames, result>>

NextTransport == \E a \in AnswerIds : BaseRequest(a)

SpecTransport == InitTransport /\ [][NextTransport]_vars

-----------------------------------------------------------------------------
(* _datetime_to_str alone: the window of a request given as zoned instants *)

\* a zoned instant: the wall-clock reading, in ticks, and the UTC offset of
\* its zone, in ticks; the zones are UTC-1h, UTC, UTC+1h and UTC+1h30
UtcOffsets == {0 - TicksPerHour, 0, TicksPerHour, TicksPerHour + 1}
Zoned(wall, utcoffset) == [wall |-> wall, utcoffset |-> utcoffset]
ZonedInstants ==
    {Zoned(w, o) : w \in (TicksPerHour + 1)..(TicksPerHour + 1 + Horizon),
                   o \in UtcOffsets}

\* dtm.tz_convert("UTC"): the wall-clock reading of the same instant in UTC
tz_convert_utc(dtm) == Zoned(dtm.wall - dtm.utcoffset, 0)

\* faulty variant: the wall-clock reading is formatted in its own zone
zoned_datetime_to_str_local(dtm) == datetime_to_str(dtm.wall)

\* _datetime_to_str of a zoned instant
zoned_datetime_to_str(dtm) ==
    LET utc == IF dtm.utcoffset # 0 THEN tz_convert_utc(dtm) ELSE dtm
    IN  datetime_to_str(utc.wall)

InitDatetime ==
    /\ kind = "load"
    /\ start \in ZonedInstants
    /\ end \in ZonedInstants
    /\ call = ValidCall(kind)
    /\ steps = <<>>
    /\ pc = "DATETIME"
    /\ blocks = <<>>
    /\ bi = 0
    /\ offset = 0
    /\ attempts = 0
    /\ answer = None
    /\ outcome = NoOutcome
    /\ limited = 0
    /\ limits = <<>>
    /\ requests = <<>>
    /\ done = <<>>
    /\ frames = <<>>
    /\ result = NoResult

\* start_str, end_str and the parameters of the request, lines 80-88
FormatWindow ==
    /\ pc = "DATETIME"
    /\ requests' = << [blk |-> 1, window |-> <<start, end>>, offset |-> 0,
                       params |-> Update(raw_query(kind, 0),
                            [securityToken |-> api_key,
                             periodStart |-> zoned_datetime_to_str(start),
                             periodEnd |-> zoned_datetime_to_str(end)])] >>
    /\ pc' = "DATETIME_DONE"
    /\ UNCHANGED <<kind, call, steps, start, end, blocks, bi, offset, attempts, answer,
                   outcome, limited, limits, done, frames, result>>

NextDatetime == FormatWindow

SpecDatetime == InitDatetime /\ [][NextDatetime]_vars

-----------------------------------------------------------------------------
(* One call of a query method, of the raw or of the typed client: its checks,
   then the request *)

InitCall ==
    /\ kind \in CallKinds
    /\ call \in Calls(kind)
    /\ steps = <<>>
    /\ start = 0
    /\ end = YearLen
    /\ pc = "CALL"
    /\ blocks = << <<start, end>> >>
    /\ bi = 1
    /\ offset = 0
    /\ attempts = 0
    /\ answer = None
    /\ outcome = NoOutcome
    /\ limited = 0
    /\ limits = <<>>
    /\ requests = <<>>
    /\ done = <<>>
    /\ frames = <<>>
    /\ result = NoResult

\* a statement before _base_request raises: the call ends there
RejectCall ==
    /\ pc = "CALL"
    /\ call_error(kind, call) # None
    /\ steps' = SubSeq(call_steps(kind, call), 1, executed(kind, call))
    /\ result' = [error |-> call_error(kind, call), table |-> {}]
    /\ pc' = "CALL_FAILED"
    /\ UNCHANGED <<kind, call, start, end, blocks, bi, offset, attempts, answer,
                   outcome, limited, limits, requests, done, frames>>

\* every statement passes: the parameters are built and _base_request called
IssueCall ==
    /\ pc = "CALL"
    /\ call_error(kind, call) = None
    /\ steps' = call_steps(kind, call)
    /\ requests' = << [blk |-> 1, window |-> <<start, end>>, offset |-> 0,
                       params |-> base_params(raw_query(kind, 0), start, end)] >>
    /\ attempts' = 1
    /\ pc' = "TRANSPORT"
    /\ UNCHANGED <<kind, call, start, end, blocks, bi, offset, answer, outcome,
                   limited, limits, done, frames, result>>

NextCall ==
    \/ RejectCall
    \/ IssueCall
    \/ \E a \in AnswerIds : BaseRequest(a)

SpecCall == InitCall /\ [][NextCall]_vars

-----------------------------------------------------------------------------
(* The composite reports of the typed client, query_load_and_forecast and
   query_import: logical queries made one after another, each through the
   orchestrator, and what is made of their results *)

\* the neighbour adjacency table
NEIGHBOURS(area) == IF area = "BE" THEN <<"NL", "FR", "GB">> ELSE <<>>

\* the answers given to the pages of the logical queries of a composite: data,
\* no data, a failure that is not recovered from and a transient one
CompositeAnswers == {"ok_xml", "ok_xml_nodata", "err_psr", "conn_error"}

\* faulty variant: every timestamp of the forecast is kept
join_left(left, right) == left

\* left.join(right, sort=True, how='inner'): the timestamps both tables have
join_inner(left, right) == left \cap right

\* the logical query that has just ended, for the history
Finished ==
    [kind |-> kind, call |-> call, error |-> result.error, table |-> result.table]

\* a typed method is called with the arguments c: a logical query of its own
Begin(k, c) ==
    /\ kind' = k
    /\ call' = c
    /\ pc' = "PENDING_YEARS"
    /\ blocks' = <<>>
    /\ bi' = 0
    /\ offset' = 0
    /\ attempts' = 0
    /\ answer' = None
    /\ outcome' = NoOutcome
    /\ limits' = <<>>
    /\ done' = <<>>
    /\ frames' = <<>>
    /\ result' = NoResult
    /\ UNCHANGED <<start, end, limited, requests>>

InitComposite ==
    /\ kind \in {"load_forecast", "crossborder_flows"}
    /\ call = IF kind = "load_forecast"
              THEN Call("typed", "BE", None, None)
              ELSE Call("typed", NEIGHBOURS("BE")[1], "BE", None)
    /\ steps = <<>>
    /\ start \in 0..(YearLen - 1)
    /\ end \in (start + 1)..(CompositeYears * YearLen)
    /\ pc = "PENDING_YEARS"
    /\ blocks = <<>>
    /\ bi = 0
    /\ offset = 0
    /\ attempts = 0
    /\ answer = None
    /\ outcome = NoOutcome
    /\ limited = 0
    /\ limits = <<>>
    /\ requests = <<>>
    /\ done = <<>>
    /\ frames = <<>>
    /\ result = NoResult

\* faulty variant: query_load is called whatever became of the forecast
QueryLoadAnyway ==
    /\ kind = "load_forecast"
    /\ pc \in {"MERGED", "FAILED"}
    /\ steps' = Append(steps, Finished)
    /\ Begin("load", call)

\* query_load_and_forecast: query_load_forecast has returned its table, and
\* query_load is called with the same arguments
QueryLoad ==
    /\ kind = "load_forecast"
    /\ pc = "MERGED"
    /\ steps' = Append(steps, Finished)
    /\ Begin("load", call)

\* query_load_and_forecast: query_load has returned its table, and the join
\* of the two is returned
JoinLoadAndForecast ==
    /\ kind = "load"
    /\ pc = "MERGED"
    /\ steps' = Append(steps, Finished)
    /\ result' = [error |-> None, table |-> join_inner(steps[1].table, result.table)]
    /\ pc' = "RETURNED"
    /\ UNCHANGED <<kind, call, start, end, blocks, bi, offset, attempts, answer,
                   outcome, limited, limits, requests, done, frames>>

\* the loop of query_import is over this neighbour: its query has returned a
\* table, or raised NoMatchingDataError, which the loop catches
NeighbourOver ==
    /\ kind = "crossborder_flows"
    /\ \/ pc = "MERGED"
       \/ pc = "FAILED" /\ result.error = "NoMatchingDataError"

\* faulty variant: the loop catches every exception
NextNeighbourCatchAll ==
    /\ kind = "crossborder_flows"
    /\ pc \in {"MERGED", "FAILED"}
    /\ Len(steps) + 1 < Len(NEIGHBOURS(call.country_code_to))
    /\ steps' = Append(steps, Finished)
    /\ Begin("crossborder_flows",
             Call("typed", NEIGHBOURS(call.country_code_to)[Len(steps) + 2],
                  call.country_code_to, None))

\* query_import: on to the next neighbour of the area
NextNeighbour ==
    /\ NeighbourOver
    /\ Len(steps) + 1 < Len(NEIGHBOURS(call.country_code_to))
    /\ steps' = Append(steps, Finished)
    /\ Begin("crossborder_flows",
             Call("typed", NEIGHBOURS(call.country_code_to)[Len(steps) + 2],
                  call.country_code_to, None))

\* query_import after the last neighbour: pd.concat of the tables gathered,
\* which raises ValueError when there is none; the columns that hold nothing
\* but zeros are dropped (zeros: the values of a table are the provider's),
\* and the table is cut to the window
ReturnImport(zeros) ==
    /\ NeighbourOver
    /\ Len(steps) + 1 = Len(NEIGHBOURS(call.country_code_to))
    /\ steps' = Append(steps, Finished)
    /\ LET imports == {i \in 1..Len(steps') : steps'[i].error = None}
           names == {steps'[i].call.country_code : i \in imports}
           im(n) == steps'[CHOOSE i \in imports : steps'[i].call.country_code = n].table
       IN  /\ zeros \subseteq names
           /\ IF imports = {}
              THEN /\ pc' = "FAILED"
                   /\ result' = [error |-> "ValueError", table |-> {}]
              ELSE /\ pc' = "RETURNED"
                   /\ result' = [error |-> None,
                                 table |-> [n \in names \ zeros |->
                                               truncate(im(n), start, end)]]
    /\ UNCHANGED <<kind, call, start, end, blocks, bi, offset, attempts, answer,
                   outcome, limited, limits, requests, done, frames>>

NextComposite ==
    \/ SplitYears
    \/ SendPage
    \/ \E a \in CompositeAnswers : RetryPage(a)
    \/ \E a \in CompositeAnswers : Accumulate(a)
    \/ \E a \in CompositeAnswers : EmptyWindow(a)
    \/ \E a \in CompositeAnswers : Fail(a)
    \/ QueryLoad
    \/ JoinLoadAndForecast
    \/ NextNeighbour
    \/ \E zeros \in SUBSET {"NL", "FR", "GB"} : ReturnImport(zeros)

SpecComposite == InitComposite /\ [][NextComposite]_vars

TypeOK ==
    /\ kind \in Kinds
    /\ pc \in {"PENDING_YEARS", "PENDING_PAGES", "PAGE_SENT", "MERGED", "FAILED"}
    /\ start < end

-----------------------------------------------------------------------------
(* Vocabulary of the properties *)

\* the report kinds that are split by year
YearSplitKinds == {"net_position", "day_ahead_prices", "load", "offered_capacity",
                   "contracted_reserve_prices", "contracted_reserve_amount",
                   "unavailability", "installed_generation_capacity",
                   "aggregate_water_reservoirs_and_hydro_storage"}
\* the report kinds whose table is a time series cut to the window queried
CutSeriesKinds == {"net_position", "day_ahead_prices", "load", "offered_capacity",
                   "contracted_reserve_prices", "contracted_reserve_amount"}

\* the declared document-count ceiling of a report kind, 0 if it declares none
PageCeiling(k) ==
    CASE k \in {"offered_capacity", "contracted_reserve_prices",
                "contracted_reserve_amount"} -> 100
      [] k = "unavailability" -> 200
      [] OTHER -> 0

CalendarYear(t) == t \div YearLen
OnYearBoundary(t) == t % YearLen = 0
\* the number of calendar years the window [s, e) reaches into
YearsSpanned(s, e) == CalendarYear(e - 1) - CalendarYear(s) + 1

\* the sub-windows for which a PageRequest was issued so far
SubQueries == {requests[i].blk : i \in 1..Len(requests)}
Offsets == [i \in 1..Len(requests) |-> requests[i].offset]

\* what the answers say
TransientAnswers == {"conn_error", "err_5xx"}
\* the allowed count a document-count message states, 0 for any other answer
StatedAllowed(a) ==
    CASE a \in {"err_count_250_100", "err_count_150_100"} -> 100
      [] a = "err_count_300_200" -> 200
      [] a = "err_count_150_50" -> 50
      [] OTHER -> 0
IsCountLimit(a) == StatedAllowed(a) > 0
MapsToCeiling(k, a) == IsCountLimit(a) /\ StatedAllowed(a) = PageCeiling(k)

\* the error kind an answer stands for when it ends the query
ErrorOf(a) ==
    CASE a = "err_psr" -> "InvalidPSRTypeError"
      [] a = "err_dependency" -> "InvalidBusinessParameterError"
      [] a \in {"err_notext", "err_unknown", "err_5xx"} -> "HTTPError"
      [] a = "conn_error" -> "ConnectionError"
      [] IsCountLimit(a) -> "PaginationError"
      [] OTHER -> None

\* n physical attempts were made when answer a arrives: nothing the
\* orchestrator or Transport recovers from
NonRecoverable(k, a, n) ==
    \/ a \in {"err_psr", "err_dependency", "err_notext", "err_unknown"}
    \/ IsCountLimit(a) /\ ~MapsToCeiling(k, a)
    \/ a \in TransientAnswers /\ n > retry_count

-----------------------------------------------------------------------------
(* C1: for a year-split report kind the window is split into as many
   sub-windows as it spans calendar years (one for a window within one year),
   every inner boundary lies on a calendar-year boundary, and a sub-query is
   issued for each sub-window and for nothing else. *)
C1_YearSplitCount ==
    (kind \in YearSplitKinds /\ pc # "PENDING_YEARS") =>
        /\ Len(blocks) = YearsSpanned(start, end)
        /\ \A i \in 1..Len(blocks) :
              /\ i > 1 => OnYearBoundary(blocks[i][1])
              /\ i < Len(blocks) => OnYearBoundary(blocks[i][2])
        /\ SubQueries \subseteq 1..YearsSpanned(start, end)
        /\ \A i \in 1..Len(requests) :
              requests[i].window = blocks[requests[i].blk]
        /\ Len(done) = Len(blocks) => SubQueries = 1..YearsSpanned(start, end)

C1_Witness ==
    /\ kind = "net_position"
    /\ pc = "MERGED"
    /\ ~OnYearBoundary(start)
    /\ YearsSpanned(start, end) = 3
    /\ Len(requests) = 3

(* C2: the sub-windows of year splitting partition [start, end): the first
   begins at start, each next one begins where the previous one ends, the last
   ends at end, and every instant of [start, end) lies in exactly one. *)
C2_Partition ==
    (kind \in YearSplitKinds /\ pc # "PENDING_YEARS") =>
        /\ Len(blocks) >= 1
        /\ blocks[1][1] = start
        /\ blocks[Len(blocks)][2] = end
        /\ \A i \in 1..(Len(blocks) - 1) : blocks[i + 1][1] = blocks[i][2]
        /\ \A t \in start..(end - 1) :
              Cardinality({i \in 1..Len(blocks) :
                              blocks[i][1] <= t /\ t < blocks[i][2]}) = 1

C2_Witness ==
    /\ kind = "day_ahead_prices"
    /\ pc = "PENDING_PAGES"
    /\ Len(blocks) = 3
    /\ ~OnYearBoundary(start)
    /\ ~OnYearBoundary(end)

(* C3: if the answer to every sub-window is the provider's no-data signal,
   the logical query fails with NoMatchingDataError and returns no table. *)
C3_AllEmpty ==
    (/\ Len(blocks) > 0
     /\ Len(done) = Len(blocks)
     /\ \A i \in 1..Len(done) : done[i].nodata) =>
        /\ pc = "FAILED"
        /\ result = [error |-> "NoMatchingDataError", table |-> {}]

C3_Witness ==
    /\ kind = "load"
    /\ Len(blocks) = 3
    /\ Len(done) = 3
    /\ \A i \in 1..3 : done[i].nodata
    /\ pc = "FAILED"

(* C4: if some sub-window is answered with the no-data signal and another with
   data, every sub-window is still queried, the empty sub-window contributes no
   fragment and no row, and the query succeeds with the rows of the sub-windows
   that had data. *)
C4_SomeEmpty ==
    (/\ Len(blocks) > 0
     /\ Len(done) = Len(blocks)
     /\ \E i \in 1..Len(done) : done[i].nodata
     /\ \E i \in 1..Len(done) : ~done[i].nodata) =>
        /\ pc = "MERGED"
        /\ result.error = None
        /\ SubQueries = 1..Len(blocks)
        /\ \A i \in 1..Len(done) : done[i].nodata => done[i].fragments = 0
        /\ \A j \in 1..Len(frames) : ~done[frames[j].blk].nodata
        /\ result.table = UNION {frames[j].rows : j \in 1..Len(frames)}
        /\ kind \in CutSeriesKinds =>
              /\ \A t \in result.table :
                    \E i \in 1..Len(done) :
                        ~done[i].nodata /\ blocks[i][1] <= t /\ t <= blocks[i][2]
              /\ \A i \in 1..Len(done) :
                    ~done[i].nodata =>
                        \A t \in blocks[i][1]..blocks[i][2] : t \in result.table

C4_Witness ==
    /\ kind = "load"
    /\ pc = "MERGED"
    /\ Len(blocks) = 3
    /\ ~done[1].nodata
    /\ done[2].nodata
    /\ ~done[3].nodata

(* C5: fail-fast.  An answer that is neither data, nor the no-data signal,
   nor a limit that maps to the ceiling, nor a transient failure within the
   retry budget ends the logical query at once: it is FAILED with the error of
   that answer and no table, no further PageRequest is issued, and a failed
   query stays failed. *)
C5_FailFast ==
    [][ /\ (pc = "PAGE_SENT" /\ NonRecoverable(kind, answer', attempts)) =>
              /\ pc' = "FAILED"
              /\ result' = [error |-> ErrorOf(answer'), table |-> {}]
              /\ requests' = requests
        /\ pc = "FAILED" =>
              /\ pc' = "FAILED"
              /\ requests' = requests
              /\ result' = result ]_vars

C5_Witness ==
    /\ pc = "FAILED"
    /\ result.error = "InvalidPSRTypeError"
    /\ Len(frames) >= 1
    /\ bi < Len(blocks)

(* C6 (as amended): within one sub-window the first PageRequest has offset 0;
   a document-count limit answer that states the ceiling is followed by a
   PageRequest for the same window at an offset larger by the ceiling; any
   other answer, a transient failure that is re-sent apart, ends the paging of
   the sub-window.  Answered limit 250/100, limit 150/100, data, a report with
   ceiling 100 issues exactly the PageRequests at offsets 0, 100 and 200 and
   merges the one fragment there is, that of the data page: a limit answer
   carries no payload. *)
Scenario ==
    /\ PageCeiling(kind) = 100
    /\ Len(blocks) = 1
    /\ limits = <<"err_count_250_100", "err_count_150_100">>
    /\ answer = "ok_xml"

C6_OffsetPaging ==
    pc # "PENDING_YEARS" =>
        /\ \A i \in 1..Len(requests) :
              IF i = 1 \/ requests[i - 1].blk # requests[i].blk
              THEN requests[i].offset = 0
              ELSE /\ requests[i].window = requests[i - 1].window
                   /\ requests[i].offset = requests[i - 1].offset + PageCeiling(kind)
        /\ \A j \in 1..Len(limits) : MapsToCeiling(kind, limits[j])
        /\ Cardinality({i \in 1..Len(requests) : requests[i].blk = bi})
              = Len(limits) + (IF pc = "PENDING_PAGES" THEN 0 ELSE 1)
        /\ (answer # None /\ MapsToCeiling(kind, answer)) =>
              /\ pc = "PENDING_PAGES"
              /\ limits # <<>>
              /\ limits[Len(limits)] = answer
              /\ offset = Len(limits) * PageCeiling(kind)
        /\ (answer # None /\ ~MapsToCeiling(kind, answer)
                /\ answer \notin TransientAnswers) =>
              \/ pc \in {"MERGED", "FAILED"}
              \/ pc = "PENDING_PAGES" /\ offset = 0 /\ limits = <<>>
        /\ Scenario =>
              /\ pc = "MERGED"
              /\ Offsets = <<0, 100, 200>>
              /\ Len(frames) = 1
              /\ result.table = frames[1].rows

\* C6 as stated: three fragments are merged
C6_Original ==
    Scenario =>
        /\ pc = "MERGED"
        /\ Offsets = <<0, 100, 200>>
        /\ Len(frames) = 3

C6_Witness ==
    /\ Scenario
    /\ kind = "contracted_reserve_prices"
    /\ pc = "MERGED"
    /\ Offsets = <<0, 100, 200>>
    /\ result.table # {}

(* C7: every request of a report kind with a document-count ceiling carries
   the wire parameter offset, equal to the offset chosen for that page. *)
C7_OffsetOnWire ==
    PageCeiling(kind) > 0 =>
        \A i \in 1..Len(requests) :
            /\ "offset" \in DOMAIN requests[i].params
            /\ requests[i].params["offset"] = requests[i].offset

(* C8: a document-count limit answer whose allowed count is not the ceiling of
   the report (or whose report declares no ceiling) ends the logical query
   with PaginationError; that page is not sent again. *)
C8_UnmappedLimit ==
    (answer # None /\ IsCountLimit(answer) /\ ~MapsToCeiling(kind, answer)) =>
        /\ pc = "FAILED"
        /\ result = [error |-> "PaginationError", table |-> {}]

C8_Witness ==
    /\ kind = "unavailability"
    /\ answer = "err_count_250_100"
    /\ Len(limits) = 1
    /\ pc = "FAILED"
    /\ result.error = "PaginationError"

(* C9: a page is sent again only after a transient failure and at most
   retry_count times; a transient failure that exhausts the budget ends the
   query with that failure; after any other answer the page is resolved, by
   the one attempt that got it. *)
C9_RetryOnlyTransient ==
    /\ attempts <= retry_count + 1
    /\ pc = "PAGE_SENT" =>
          IF attempts = 1 THEN answer = None ELSE answer \in TransientAnswers
    /\ (answer # None /\ answer \notin TransientAnswers) => pc # "PAGE_SENT"
    /\ (answer \in TransientAnswers /\ pc # "PAGE_SENT") =>
          /\ pc = "FAILED"
          /\ attempts = retry_count + 1
          /\ result = [error |-> ErrorOf(answer), table |-> {}]

C9_Witness ==
    /\ pc = "FAILED"
    /\ answer = "conn_error"
    /\ attempts = retry_count + 1
    /\ result.error = "ConnectionError"
    /\ Len(frames) >= 1

(* C10: a response with status 200 becomes Empty (NoMatchingDataError)
   exactly when its content type is application/xml and its body holds the
   no-data phrase; a ZIP response is returned as it is, whatever it holds. *)
NoDataBodies == {"ok_xml_nodata", "ok_zip_nodata"}

C10_EmptyOn200 ==
    (pc = "TRANSPORT_DONE" /\ ~Resp(answer).raises /\ Resp(answer).status = 200) =>
        /\ outcome.exc \in {"Response", "NoMatchingDataError"}
        /\ outcome.exc = "NoMatchingDataError"
              <=> (Resp(answer).ctype = Xml /\ answer \in NoDataBodies)
        /\ Resp(answer).ctype = Zip => outcome.exc = "Response"

C10_Witness ==
    /\ pc = "TRANSPORT_DONE"
    /\ answer = "ok_zip_nodata"
    /\ outcome.exc = "Response"

(* C11: for a response with an error status whose body holds a <text>
   element, the phrase in that text decides what _base_request raises: the
   no-data phrase NoMatchingDataError, the dependency-tables phrase
   InvalidBusinessParameterError, the not-valid-for-this-area phrase
   InvalidPSRTypeError, and the document-count message and the offset message,
   in the shape documented, alike PaginationError. *)
TransportDone == pc = "TRANSPORT_DONE" /\ ~Resp(answer).raises
ErrorWithText == Resp(answer).status >= 400 /\ Len(Resp(answer).texts) > 0
PhraseOf(a) == Resp(a).texts[1].contains
\* the text has the pagination phrase but not the tokens of the message
TooFewTokens(a) ==
    \/ PhraseOf(a) = {CountLimit} /\ Len(Resp(a).texts[1].tokens) < 5
    \/ PhraseOf(a) = {OffsetLimit} /\ Len(Resp(a).texts[1].tokens) < 30

C11_PhraseDecides ==
    (TransportDone /\ ErrorWithText /\ ~TooFewTokens(answer)) =>
        /\ PhraseOf(answer) = {NoData} => outcome.exc = "NoMatchingDataError"
        /\ PhraseOf(answer) = {Dependency} =>
              outcome.exc = "InvalidBusinessParameterError"
        /\ PhraseOf(answer) = {PsrInvalid} => outcome.exc = "InvalidPSRTypeError"
        /\ PhraseOf(answer) = {CountLimit} => outcome.exc = "PaginationError"
        /\ PhraseOf(answer) = {OffsetLimit} => outcome.exc = "PaginationError"

C11_Witness ==
    /\ TransportDone
    /\ answer = "err_offset"
    /\ outcome.exc = "PaginationError"

(* C12: a response with an error status whose body holds no <text> element,
   or whose text holds none of the phrases, is raised as the HTTPError of that
   response, with its status; it never becomes NoMatchingDataError, an
   invalid-parameter error or PaginationError. *)
C12_UnrecognizedIsFatal ==
    (/\ TransportDone
     /\ Resp(answer).status >= 400
     /\ (Len(Resp(answer).texts) = 0 \/ PhraseOf(answer) = {})) =>
        /\ outcome.exc = "HTTPError"
        /\ outcome.status = Resp(answer).status

C12_Witness ==
    /\ TransportDone
    /\ answer = "err_unknown"
    /\ outcome.exc = "HTTPError"
    /\ outcome.status = 400

(* C13: for the document-count message and for the offset message, the
   requested and the allowed count of the PaginationError are the counts the
   message states. *)
StatedCounts(a) ==
    CASE a = "err_count_250_100" -> <<T250, T100>>
      [] a = "err_count_150_100" -> <<T150, T100>>
      [] a = "err_count_300_200" -> <<T300, T200>>
      [] a = "err_count_150_50" -> <<T150, T50>>
      [] a = "err_offset" -> <<T250, T100>>
      [] OTHER -> <<>>

SeriesKinds == CutSeriesKinds \cup WideKinds

C14_InsideWindow ==
    (pc = "MERGED" /\ kind \in SeriesKinds) =>
        \A t \in result.table : start <= t /\ t <= end

(* C15: the periodStart and periodEnd sent are the UTC hour the zoned instant
   lies in: the part below the hour is dropped, every zoned instant is
   formatted, and two instants in the same UTC hour give the same string,
   whatever their zones. *)
UtcInstant(z) == z.wall - z.utcoffset
\* the hour h with h hours <= t < h + 1 hours
HourOf(t) == CHOOSE h \in 0..(t + 1) : h * TicksPerHour <= t /\ t < (h + 1) * TicksPerHour

C15_UtcHour ==
    pc = "DATETIME_DONE" =>
        /\ Len(requests) = 1
        /\ requests[1].params.periodStart = HourOf(UtcInstant(start))
        /\ requests[1].params.periodEnd = HourOf(UtcInstant(end))
        /\ HourOf(UtcInstant(start)) = HourOf(UtcInstant(end)) =>
              requests[1].params.periodStart = requests[1].params.periodEnd

C15_Witness ==
    /\ pc = "DATETIME_DONE"
    /\ start.utcoffset # end.utcoffset
    /\ start.utcoffset # 0
    /\ end.utcoffset # 0
    /\ UtcInstant(start) # UtcInstant(end)
    /\ UtcInstant(start) % TicksPerHour # 0
    /\ requests[1].params.periodStart = requests[1].params.periodEnd

(* C16: query_procured_balancing_capacity called with a process_type other
   than A51 and A47 fails with the validation error, before any area is looked
   up and before any request is made. *)
C16_ValidatedFirst ==
    (/\ kind = "procured_balancing_capacity"
     /\ call.process_type \notin {"A51", "A47"}
     /\ pc # "CALL") =>
        /\ pc = "CALL_FAILED"
        /\ result.error = "ValueError"
        /\ requests = <<>>
        /\ steps = <<"process_type in ['A51', 'A47']">>

(* C17: a call one of whose area identifiers does not resolve (its other
   arguments passing their checks) fails with the unknown-area error; no
   request is made and nothing is attempted, let alone re-sent; for a report
   on a pair of areas either identifier does so. *)
Unresolvable(k, c) ==
    \/ c.country_code = "XX"
    \/ k \in PairedKinds /\ c.country_code_to = "XX"
ProcessTypeAllowed(k, c) ==
    k = "procured_balancing_capacity" => c.process_type \in {"A51", "A47"}

Resolved ==
    Len(done) + limited
      + (IF pc = "FAILED" /\ result.error # "NoMatchingDataError" THEN 1 ELSE 0)

C18_OneInFlight ==
    /\ Len(requests) - Resolved = (IF pc = "PAGE_SENT" THEN 1 ELSE 0)
    /\ pc = "PAGE_SENT" => attempts >= 1 /\ Current.blk = bi /\ Current.offset = offset
    /\ \A i \in 1..(Len(requests) - 1) :
          /\ requests[i].blk <= requests[i + 1].blk
          /\ requests[i].window[1] <= requests[i + 1].window[1]
    /\ \A i \in 1..Len(done) : done[i].blk = i
    /\ \A j \in 1..(Len(frames) - 1) : frames[j].blk < frames[j + 1].blk

C18_Witness ==
    /\ pc = "PAGE_SENT"
    /\ kind = "contracted_reserve_amount"
    /\ Len(requests) = 3
    /\ Resolved = 2
    /\ limited = 1
    /\ bi = 2
    /\ attempts = 2

(* C19: the window is split by year before any request is built; every
   request is for one of the sub-windows; in every sub-window the first
   request has offset 0, whatever offset the sub-window before reached, and
   the offset of a request is the ceiling times the number of requests made
   before it for the same sub-window, so that a limit answer in one
   sub-window changes nothing for another. *)
PagesBefore(i) ==
    Cardinality({j \in 1..(i - 1) : requests[j].blk = requests[i].blk})

C19_PerWindowPaging ==
    /\ pc = "PENDING_YEARS" => requests = <<>>
    /\ pc # "PENDING_YEARS" =>
          /\ kind \in YearSplitKinds => Len(blocks) = YearsSpanned(start, end)
          /\ \A i \in 1..Len(requests) :
                /\ requests[i].blk \in 1..Len(blocks)
                /\ requests[i].window = blocks[requests[i].blk]
                /\ requests[i].offset = PageCeiling(kind) * PagesBefore(i)

C19_Witness ==
    /\ kind = "unavailability"
    /\ Len(blocks) >= 2
    /\ Len(requests) = 3
    /\ Offsets = <<0, 200, 0>>
    /\ requests[2].blk = 1
    /\ requests[3].blk = 2
    /\ requests[3].window # requests[2].window

(* C20: every logical query ends in MERGED or FAILED, when every physical
   request is answered and the provider gives the document-count limit answer
   finitely often; no run stays in PENDING_YEARS, PENDING_PAGES or PAGE_SENT
   for ever. *)
Terminal == pc \in {"MERGED", "FAILED"}

C20_Terminates == <>Terminal

C20_Witness ==
    /\ pc = "MERGED"
    /\ kind = "unavailability"
    /\ Len(blocks) = 2
    /\ limited = MaxLimited
    /\ Len(requests) = 2 + MaxLimited

(* C22: the parameter set a builder produced keeps every key and every value
   it was built with: what Transport sends for a page, first attempt or
   re-sent, is the builder's set with the three parameters of Transport added,
   none of which a builder sets, and every page has a set of its own, built
   for its offset. *)
TransportKeys == {"securityToken", "periodStart", "periodEnd"}
Built(i) == raw_query(kind, requests[i].offset)

Supplied(k) ==
    CASE k = "crossborder_flows" -> <<None, None, None>>
      [] k = "scheduled_exchanges" -> <<"A05", None, None>>
      [] k = "scheduled_exchanges dayahead" -> <<"A01", None, None>>
      [] k = "net_transfer_capacity_dayahead" -> <<"A01", None, None>>
      [] k = "net_transfer_capacity_weekahead" -> <<"A02", None, None>>
      [] k = "net_transfer_capacity_monthahead" -> <<"A03", None, None>>
      [] k = "net_transfer_capacity_yearahead" -> <<"A04", None, None>>
      [] k = "intraday_offered_capacity" -> <<"A07", "A01", None>>
      [] k = "intraday_offered_capacity explicit" -> <<"A07", "A02", None>>
      [] k = "offered_capacity" -> <<"A01", "A01", None>>
      [] k = "offered_capacity explicit" -> <<"A01", "A02", "B05">>
      [] k = "unavailability_transmission" -> <<None, None, None>>

\* the parameter is in the set exactly when a value was given, with that value
PresentIff(params, key, value) ==
    IF value = None THEN key \notin DOMAIN params
    ELSE key \in DOMAIN params /\ params[key] = value

C23_PairedAreas ==
    (kind \in PairedKinds /\ requests # <<>>) =>
        LET params == requests[1].params IN
        /\ params["in_Domain"] = lookup_area(call.country_code_to)
        /\ params["out_Domain"] = lookup_area(call.country_code)
        /\ params["in_Domain"] # params["out_Domain"]
        /\ PresentIff(params, "contract_MarketAgreement.Type", Supplied(kind)[1])
        /\ PresentIff(params, "Auction.Type", Supplied(kind)[2])
        /\ PresentIff(params, "businessType", Supplied(kind)[3])

C23_Witness ==
    /\ kind = "offered_capacity explicit"
    /\ call.client = "typed"
    /\ pc = "TRANSPORT_DONE"
    /\ requests[1].params["in_Domain"] = "10YNL"
    /\ requests[1].params["out_Domain"] = "10YBE"
    /\ requests[1].params["businessType"] = "B05"

(* C27: an error text that holds a pagination phrase but fewer tokens than
   the positions read from it is raised as the HTTPError of the response, with
   its status; nothing else is raised and no count is taken from it. *)
C27_ShortTextIsFatal ==
    (TransportDone /\ ErrorWithText /\ TooFewTokens(answer)) =>
        /\ outcome.exc = "HTTPError"
        /\ outcome.status = Resp(answer).status
        /\ outcome.requested = <<>>
        /\ outcome.allowed = <<>>

(* C28: when the text holds more than one of the phrases, the first in the
   order no-data, dependency-tables, not-valid-for-this-area, document-count,
   offset decides; only the first <text> element of the body counts, whatever
   a later one holds. *)
PhraseOrder == <<NoData, Dependency, PsrInvalid, CountLimit, OffsetLimit>>
FirstPhrase(phrases) ==
    LET at == {i \in 1..Len(PhraseOrder) : PhraseOrder[i] \in phrases}
    IN  IF at = {} THEN None
        ELSE PhraseOrder[CHOOSE i \in at : \A j \in at : i <= j]
ExceptionOf(phrase) ==
    CASE phrase = NoData -> "NoMatchingDataError"
      [] phrase = Dependency -> "InvalidBusinessParameterError"
      [] phrase = PsrInvalid -> "InvalidPSRTypeError"
      [] phrase \in {CountLimit, OffsetLimit} -> "PaginationError"
      [] OTHER -> "HTTPError"

C28_FirstPhraseWins ==
    (TransportDone /\ ErrorWithText /\ ~TooFewTokens(answer)) =>
        /\ outcome.exc = ExceptionOf(FirstPhrase(PhraseOf(answer)))
        /\ CountLimit \in PhraseOf(answer) => outcome.shape # "offset"

C28_Witness ==
    /\ TransportDone
    /\ answer = "err_psr_count"
    /\ PhraseOf(answer) = {PsrInvalid, CountLimit}
    /\ outcome.exc = "InvalidPSRTypeError"

(* C30: every row of the table of an unavailability report is an
   unavailability whose own interval overlaps the caller's window: it starts
   before the window's end and ends after the window's start. *)
C30_OverlapsWindow ==
    (pc = "MERGED" /\ kind \in ZipKinds) =>
        \A r \in result.table : r[1] < end /\ r[2] > start

(* C24: the table query_load_and_forecast returns has exactly the timestamps
   that both the forecast table and the actual-load table have: a timestamp is
   dropped only when one of the two lacks it, and none is there that one of
   them lacks (nothing is filled in). *)
C24_InnerJoin ==
    (pc = "RETURNED" /\ kind = "load") =>
        /\ Len(steps) = 2
        /\ steps[1].kind = "load_forecast"
        /\ steps[2].kind = "load"
        /\ \A t \in result.table : t \in steps[1].table /\ t \in steps[2].table
        /\ \A t \in steps[1].table : t \in steps[2].table => t \in result.table
        /\ \A t \in steps[1].table \cup steps[2].table :
              t \notin result.table => (t \notin steps[1].table \/ t \notin steps[2].table)

C24_Witness ==
    /\ pc = "RETURNED"
    /\ kind = "load"
    /\ result.table # {}
    /\ result.table # steps[1].table
    /\ result.table # steps[2].table

(* C25: query_import queries the neighbours of the area one after another,
   in the order of the table; a neighbour whose query ends with
   NoMatchingDataError is passed over and the neighbours after it are queried
   all the same; any other failure of a neighbour's query ends query_import
   with that failure, no neighbour being queried after it; the table returned
   has columns of neighbours that returned data only, one each at most. *)
Neighbours == NEIGHBOURS("BE")
\* the neighbour a request is for
NeighbourOf(i) ==
    CHOOSE n \in 1..Len(Neighbours) :
        lookup_area(Neighbours[n]) = requests[i].params["out_Domain"]

C25_ImportLoop ==
    kind = "crossborder_flows" =>
        /\ Len(steps) <= Len(Neighbours)
        /\ \A i \in 1..Len(steps) :
              /\ steps[i].call.country_code = Neighbours[i]
              /\ steps[i].error \in {None, "NoMatchingDataError"}
              /\ \E j \in 1..Len(requests) : NeighbourOf(j) = i
        /\ \A j \in 1..Len(requests) :
              /\ requests[j].params["in_Domain"] = lookup_area("BE")
              /\ NeighbourOf(j) <= Len(steps) + 1
              /\ j > 1 => NeighbourOf(j - 1) <= NeighbourOf(j)
        /\ (pc = "FAILED" /\ result.error \notin {"NoMatchingDataError", "ValueError"}) =>
              /\ Len(steps) < Len(Neighbours)
              /\ result.error = ErrorOf(answer)
              /\ call.country_code = Neighbours[Len(steps) + 1]
        /\ pc = "RETURNED" =>
              /\ Len(steps) = Len(Neighbours)
              /\ DOMAIN result.table \subseteq
                    {Neighbours[i] : i \in {n \in 1..Len(steps) : steps[n].error = None}}

C25_Witness ==
    /\ kind = "crossborder_flows"
    /\ pc = "RETURNED"
    /\ steps[1].error = None
    /\ steps[2].error = "NoMatchingDataError"
    /\ steps[3].error = None
    /\ DOMAIN result.table = {"NL", "GB"}

(* C26: when the query of every neighbour ends with no data, query_import
   fails with NoMatchingDataError and with no other error. *)
C26_AllEmptyIsNoData ==
    (/\ kind = "crossborder_flows"
     /\ Len(steps) = Len(Neighbours)
     /\ \A i \in 1..Len(steps) : steps[i].error = "NoMatchingDataError") =>
        /\ pc = "FAILED"
        /\ result.error = "NoMatchingDataError"

(* C29: in query_load_and_forecast the forecast query has ended, with its
   table, before the first request of the actual-load query is made; when the
   forecast query fails, NoMatchingDataError included, no actual-load request
   is ever made and its failure is the result; when the actual-load query
   fails, its failure is the result and no table is returned. *)
LoadRequest(i) == requests[i].params["processType"] = "A16"

C29_ForecastThenLoad ==
    kind \in {"load_forecast", "load"} =>
        /\ \A i \in 1..Len(requests) :
              LoadRequest(i) =>
                  /\ Len(steps) >= 1
                  /\ steps[1].kind = "load_forecast"
                  /\ steps[1].error = None
                  /\ \A j \in i..Len(requests) : LoadRequest(j)
        /\ kind = "load_forecast" =>
              /\ steps = <<>>
              /\ \A i \in 1..Len(requests) : ~LoadRequest(i)
        /\ (kind = "load_forecast" /\ pc = "FAILED") =>
              /\ result.error \in {"NoMatchingDataError", ErrorOf(answer)}
              /\ result.table = {}
        /\ (kind = "load" /\ pc = "FAILED") =>
              /\ Len(steps) = 1
              /\ result.error \in {"NoMatchingDataError", ErrorOf(answer)}
              /\ result.table = {}
        /\ pc = "RETURNED" =>
              /\ Len(steps) = 2
              /\ steps[2].error = None

C29_Witness ==
    /\ kind = "load"
    /\ pc = "FAILED"
    /\ result.error = "InvalidPSRTypeError"
    /\ steps[1].table # {}
    /\ \E i \in 1..Len(requests) : LoadRequest(i)
    /\ \E i \in 1..Len(requests) : ~LoadRequest(i)

====
